---- MODULE Spec2Model ----
(***************************************************************************)
(* Model of lsst.pipe.tasks.mocks.mockCoadd (MockCoaddTask and the         *)
(* convenience function run) and of what loading and constructing          *)
(* lsst.pipe.tasks.injectFakeSources.InjectFakeSourcesTask does.           *)
(*                                                                         *)
(* A behaviour is one top-level call made on a data repository whose       *)
(* content is drawn from the repositories the pipeline leaves behind.      *)
(* Every method is a frame on a call stack; every butler access is one     *)
(* step and is appended to the trace of the call.  An exception unwinds    *)
(* the whole stack (the source has no try/except).                         *)
(***************************************************************************)
EXTENDS Integers, Sequences, FiniteSets, TLC

VARIABLES coaddName, repo, op, stack, trace, ret

vars == <<coaddName, repo, op, stack, trace, ret>>

-----------------------------------------------------------------------------
(* Bounds and program constants *)

\* records of an observation catalog handed to buildInputImages
NumObs == 2
\* records of a truth catalog
NumTruth == 2
\* setupSkyMapPatches(nPatches=2): the tract has nPatches x nPatches patches
nPatches == 2

Tracts == {0, 1}
CoaddNames == {"deep", "goodSeeing"}

-----------------------------------------------------------------------------
(* Values *)

Obj(kind, gen) == [kind |-> kind, gen |-> gen, n |-> 0, p |-> 0]
None == Obj("None", "none")
Butler == Obj("butler", "arg")

Arg(kind) == Obj(kind, "arg")
Stored(kind) == Obj(kind, "stored")
Made(kind) == Obj(kind, "made")

\* a dataset of the butler: the dataset type (with the coadd name it is
\* prefixed by, "" when it has none) and the data id
Key(coadd, ds, id) == [coadd |-> coadd, ds |-> ds, id |-> id]

SkyMapKey(c) == Key(c, "Coadd_skyMap", <<>>)
CameraKey == Key("", "camera", <<>>)
TruthKey(t) == Key("", "truth", <<t>>)
ObservationsKey(t) == Key("", "observations", <<t>>)
SimSrcKey(t) == Key("", "simsrc", <<t>>)
CalexpKey(ccd, visit) == Key("", "calexp", <<ccd, visit>>)
TempExpKey(c, t, px, py) == Key(c, "Coadd_tempExp", <<t, px, py>>)
CoaddKey(c, t, px, py) == Key(c, "Coadd", <<t, px, py>>)
MockCoaddKey(c, t, px, py) == Key(c, "Coadd_mock", <<t, px, py>>)

\* the ccd and visit of the i-th record of an observation catalog
CcdOf(i) == 0
VisitOf(i) == i

\* iterPatchRefs: the k-th patch of the nested loops, iPatchX outer
PatchX(k) == k \div nPatches
PatchY(k) == k % nPatches
NumPatchRefs == nPatches * nPatches

NoConfig == [f \in {} |-> "absent"]

Frame(fn) ==
    [fn |-> fn, pc |-> "start", butler |-> None, skyMap |-> None,
     camera |-> None, obsCatalog |-> None, truthCatalog |-> None,
     tract |-> 0, cls |-> "None", i |-> 0, j |-> 0, n |-> 0, p |-> 0,
     got |-> None,
     gotCls |-> "None", gotConfig |-> NoConfig,
     tempExpConfig |-> NoConfig, assembleConfig |-> NoConfig]

NoOp == Frame("none")

\* what a call hands back: an object, or a task (its class and its config)
Result(v) == [value |-> v, cls |-> "None", config |-> NoConfig]
TaskResult(cls, config) == [value |-> Made("task"), cls |-> cls, config |-> config]

Ok(r) == [status |-> "returned", exc |-> "", value |-> r.value,
          cls |-> r.cls, config |-> r.config]
Raised(e) == [status |-> "raised", exc |-> e, value |-> None,
              cls |-> "None", config |-> NoConfig]
NoRet == [status |-> "none", exc |-> "", value |-> None,
          cls |-> "None", config |-> NoConfig]

-----------------------------------------------------------------------------
(* The call stack *)

Top == stack[Len(stack)]
Running(fn, pc) == stack # <<>> /\ Top.fn = fn /\ Top.pc = pc

\* the top frame continues as f
Goto(f) == stack' = [stack EXCEPT ![Len(stack)] = f]

\* the top frame, left at pc, calls f
Call(pc, f) == stack' = Append([stack EXCEPT ![Len(stack)].pc = pc], f)

\* the top frame returns r to its caller, or to the top-level caller
Return(r) ==
    IF Len(stack) = 1
    THEN stack' = <<>> /\ ret' = Ok(r)
    ELSE /\ stack' = [SubSeq(stack, 1, Len(stack) - 1)
                        EXCEPT ![Len(stack) - 1].got = r.value,
                               ![Len(stack) - 1].gotCls = r.cls,
                               ![Len(stack) - 1].gotConfig = r.config]
         /\ UNCHANGED ret

\* an exception nobody catches
Raise(e) == stack' = <<>> /\ ret' = Raised(e)

-----------------------------------------------------------------------------
(* The butler *)

\* one access: a get or a put, the dataset, the object handed over, and the
\* method of MockCoaddTask it is made for
Access(acc, key, obj) == [acc |-> acc, key |-> key, obj |-> obj, by |-> Top.fn]

\* butler.get(key) as a step of the top frame: on success the frame goes on
\* as next; on None it is an AttributeError, on a dataset that was never
\* written the butler raises
ButlerGet(butler, key, next) ==
    IF butler = None
    THEN Raise("AttributeError") /\ UNCHANGED <<repo, trace>>
    ELSE /\ trace' = Append(trace, Access("get", key, Stored(key.ds)))
         /\ UNCHANGED repo
         /\ IF key \in repo
            THEN Goto(next) /\ UNCHANGED ret
            ELSE Raise("NoResults")

\* butler.put(obj, key): the effect on the repository and on the trace
ButlerPut(key, obj) ==
    /\ repo' = repo \cup {key}
    /\ trace' = Append(trace, Access("put", key, obj))

-----------------------------------------------------------------------------
(* Subtasks and framework calls whose code is outside this module *)

\* MakeSkyMapTask.run(dataRef): builds the sky map and writes it under the
\* dataset of the data reference
MakeSkyMapRun(key) == ButlerPut(key, Made("Coadd_skyMap"))

\* MockObjectTask.run(tractInfo): a new truth catalog
MockObjectRun == Made("truth")

\* MockObservationTask.run(butler, n, camera, tractInfo): a new catalog of
\* observations
MockObservationRun == Made("observations")

\* MockObjectTask.drawSource: 0 nothing drawn, 1 partly on the image, 2 fully
DrawStatus == {0, 1, 2}

-----------------------------------------------------------------------------
(* MockCoaddTask.buildSkyMap *)

BuildSkyMap ==
    /\ Running("buildSkyMap", "start")
    /\ IF Top.butler = None
       THEN Raise("AttributeError") /\ UNCHANGED <<repo, trace>>
       ELSE /\ MakeSkyMapRun(SkyMapKey(coaddName))
            /\ Return(Result(Made("Coadd_skyMap")))
    /\ UNCHANGED <<coaddName, op>>

-----------------------------------------------------------------------------
(* MockCoaddTask.buildTruthCatalog *)

\* if skyMap is None: skyMap = butler.get(coaddName + "Coadd_skyMap")
BuildTruthCatalog_skyMap ==
    /\ Running("buildTruthCatalog", "start")
    /\ IF Top.skyMap = None
       THEN ButlerGet(Top.butler, SkyMapKey(coaddName),
                      [Top EXCEPT !.skyMap = Stored("Coadd_skyMap"), !.pc = "run"])
       ELSE Goto([Top EXCEPT !.pc = "run"]) /\ UNCHANGED <<repo, trace, ret>>
    /\ UNCHANGED <<coaddName, op>>

\* the catalog put under the default tract whatever tract was asked for
TruthDataIdDefault(tract) == 0

\* whether buildTruthCatalog saves its catalog, and under which tract
TruthSaved(butler) == butler # None
TruthDataId(tract) == tract

\* catalog = mockObject.run(...); if butler is not None: put; return catalog
BuildTruthCatalog_run ==
    /\ Running("buildTruthCatalog", "run")
    /\ LET catalog == MockObjectRun IN
       /\ IF TruthSaved(Top.butler)
          THEN ButlerPut(TruthKey(TruthDataId(Top.tract)), catalog)
          ELSE UNCHANGED <<repo, trace>>
       /\ Return(Result(catalog))
    /\ UNCHANGED <<coaddName, op>>

-----------------------------------------------------------------------------
(* MockCoaddTask.buildObservationCatalog *)

BuildObservationCatalog_skyMap ==
    /\ Running("buildObservationCatalog", "start")
    /\ IF Top.skyMap = None
       THEN ButlerGet(Top.butler, SkyMapKey(coaddName),
                      [Top EXCEPT !.skyMap = Stored("Coadd_skyMap"), !.pc = "camera"])
       ELSE Goto([Top EXCEPT !.pc = "camera"]) /\ UNCHANGED <<repo, trace, ret>>
    /\ UNCHANGED <<coaddName, op>>

\* if camera is None: camera = butler.get("camera")
BuildObservationCatalog_camera ==
    /\ Running("buildObservationCatalog", "camera")
    /\ IF Top.camera = None
       THEN ButlerGet(Top.butler, CameraKey,
                      [Top EXCEPT !.camera = Stored("camera"), !.pc = "run"])
       ELSE Goto([Top EXCEPT !.pc = "run"]) /\ UNCHANGED <<repo, trace, ret>>
    /\ UNCHANGED <<coaddName, op>>

\* whether buildObservationCatalog saves its catalog
ObservationsSaved(butler) == butler # None

BuildObservationCatalog_run ==
    /\ Running("buildObservationCatalog", "run")
    /\ LET catalog == MockObservationRun IN
       /\ IF ObservationsSaved(Top.butler)
          THEN ButlerPut(ObservationsKey(Top.tract), catalog)
          ELSE UNCHANGED <<repo, trace>>
       /\ Return(Result(catalog))
    /\ UNCHANGED <<coaddName, op>>

-----------------------------------------------------------------------------
(* MockCoaddTask.buildInputImages *)

\* skyMap = butler.get(coaddName + "Coadd_skyMap"), whatever butler is
BuildInputImages_skyMap ==
    /\ Running("buildInputImages", "start")
    /\ ButlerGet(Top.butler, SkyMapKey(coaddName),
                 [Top EXCEPT !.skyMap = Stored("Coadd_skyMap"), !.pc = "obs"])
    /\ UNCHANGED <<coaddName, op>>

BuildInputImages_obs ==
    /\ Running("buildInputImages", "obs")
    /\ IF Top.obsCatalog = None
       THEN ButlerGet(Top.butler, ObservationsKey(Top.tract),
                      [Top EXCEPT !.obsCatalog = Stored("observations"),
                                  !.pc = "truth"])
       ELSE Goto([Top EXCEPT !.pc = "truth"]) /\ UNCHANGED <<repo, trace, ret>>
    /\ UNCHANGED <<coaddName, op>>

BuildInputImages_truth ==
    /\ Running("buildInputImages", "truth")
    /\ LET next == [Top EXCEPT !.pc = "draw", !.i = 1, !.j = 1] IN
       IF Top.truthCatalog = None
       THEN ButlerGet(Top.butler, TruthKey(Top.tract),
                      [next EXCEPT !.truthCatalog = Stored("truth")])
       ELSE Goto(next) /\ UNCHANGED <<repo, trace, ret>>
    /\ UNCHANGED <<coaddName, op>>

\* one turn of the inner loop: drawSource for truth record j on the exposure
\* of observation record i; a simsrc record is added when status is not 0
BuildInputImages_draw ==
    /\ Running("buildInputImages", "draw")
    /\ \E status \in DrawStatus :
         Goto([Top EXCEPT
                 !.n = IF status # 0 THEN @ + 1 ELSE @,
                 !.p = IF status = 1 THEN @ + 1 ELSE @,
                 !.j = @ + 1,
                 !.pc = IF Top.j = NumTruth THEN "calexp" ELSE "draw"])
    /\ UNCHANGED <<coaddName, repo, op, trace, ret>>

\* if butler is not None: butler.put(exposure, "calexp", ccd=ccd, visit=visit)
BuildInputImages_calexp ==
    /\ Running("buildInputImages", "calexp")
    /\ IF Top.butler # None
       THEN ButlerPut(CalexpKey(CcdOf(Top.i), VisitOf(Top.i)), Made("calexp"))
       ELSE UNCHANGED <<repo, trace>>
    /\ Goto([Top EXCEPT !.i = @ + 1, !.j = 1,
                        !.pc = IF Top.i = NumObs THEN "simsrc" ELSE "draw"])
    /\ UNCHANGED <<coaddName, op, ret>>

\* if butler is not None: butler.put(simSrcCatalog, "simsrc", tract=tract)
BuildInputImages_simsrc ==
    /\ Running("buildInputImages", "simsrc")
    /\ LET simSrcCatalog == [Made("simsrc") EXCEPT !.n = Top.n, !.p = Top.p] IN
       /\ IF Top.butler # None
          THEN ButlerPut(SimSrcKey(Top.tract), simSrcCatalog)
          ELSE UNCHANGED <<repo, trace>>
       /\ Return(Result(simSrcCatalog))
    /\ UNCHANGED <<coaddName, op>>

-----------------------------------------------------------------------------
(* MockCoaddTask.buildAllInputs *)

BuildAllInputs_skyMap ==
    /\ Running("buildAllInputs", "start")
    /\ Call("observations", [Frame("buildSkyMap") EXCEPT !.butler = Top.butler])
    /\ UNCHANGED <<coaddName, repo, op, trace, ret>>

BuildAllInputs_observations ==
    /\ Running("buildAllInputs", "observations")
    /\ stack' = Append([stack EXCEPT ![Len(stack)].pc = "truth",
                                     ![Len(stack)].skyMap = Top.got],
                       [Frame("buildObservationCatalog") EXCEPT
                           !.butler = Top.butler, !.skyMap = Top.got])
    /\ UNCHANGED <<coaddName, repo, op, trace, ret>>

BuildAllInputs_truth ==
    /\ Running("buildAllInputs", "truth")
    /\ stack' = Append([stack EXCEPT ![Len(stack)].pc = "images",
                                     ![Len(stack)].obsCatalog = Top.got],
                       [Frame("buildTruthCatalog") EXCEPT
                           !.butler = Top.butler, !.skyMap = Top.skyMap])
    /\ UNCHANGED <<coaddName, repo, op, trace, ret>>

BuildAllInputs_images ==
    /\ Running("buildAllInputs", "images")
    /\ stack' = Append([stack EXCEPT ![Len(stack)].pc = "end",
                                     ![Len(stack)].truthCatalog = Top.got],
                       [Frame("buildInputImages") EXCEPT
                           !.butler = Top.butler,
                           !.obsCatalog = Top.obsCatalog,
                           !.truthCatalog = Top.got])
    /\ UNCHANGED <<coaddName, repo, op, trace, ret>>

BuildAllInputs_end ==
    /\ Running("buildAllInputs", "end")
    /\ Return(Result(None))
    /\ UNCHANGED <<coaddName, repo, op, trace>>

-----------------------------------------------------------------------------
(* MockCoaddTask.makeCoaddTask *)

MakeCoaddTempExpTask == "MakeCoaddTempExpTask"
AssembleCoaddTask == "AssembleCoaddTask"
\* any other coadd task class a caller may pass
CoaddBaseTask == "CoaddBaseTask"
CoaddTaskClasses == {MakeCoaddTempExpTask, AssembleCoaddTask, CoaddBaseTask}

BaseFields == {"coaddName", "select"}
ConfigFields(cls) ==
    IF cls = MakeCoaddTempExpTask
    THEN BaseFields \cup {"bgSubtracted", "warpAndPsfMatch.desiredFwhm"}
    ELSE IF cls = AssembleCoaddTask
    THEN BaseFields \cup {"doMatchBackgrounds"}
    ELSE BaseFields

FieldDefaults(f) ==
    IF f = "coaddName" THEN CoaddNames
    ELSE IF f = "select" THEN {"WcsSelectImagesTask"}
    ELSE IF f = "warpAndPsfMatch.desiredFwhm" THEN {"None", "float"}
    ELSE {"True", "False"}

\* cls.ConfigClass(): a config of the class with the class's defaults
ConfigClass(cls) ==
    {c \in [ConfigFields(cls) -> {"deep", "goodSeeing", "WcsSelectImagesTask",
                                  "None", "float", "True", "False"}] :
        \A f \in DOMAIN c : c[f] \in FieldDefaults(f)}

\* assigning a field the config class does not have is an AttributeError
ConfigError == [f \in {"error"} |-> "AttributeError"]
SetField(config, f, v) ==
    IF f \in DOMAIN config /\ "error" \notin DOMAIN config
    THEN [config EXCEPT ![f] = v]
    ELSE ConfigError

\* the AssembleCoaddTask setting given to a task of any class
MakeCoaddTaskConfigUnguarded(cls, config, name) ==
    LET named == SetField(config, "coaddName", name)
        selected == SetField(named, "select", "MockSelectImagesTask")
        assembled == SetField(selected, "doMatchBackgrounds", "False")
    IN  IF cls = MakeCoaddTempExpTask
        THEN SetField(SetField(assembled, "bgSubtracted", "True"),
                      "warpAndPsfMatch.desiredFwhm", "None")
        ELSE assembled

\* the configuration makeCoaddTask gives a task of class cls
MakeCoaddTaskConfig(cls, config, name) ==
    LET named == SetField(config, "coaddName", name)
        selected == SetField(named, "select", "MockSelectImagesTask")
    IN  IF cls = MakeCoaddTempExpTask
        THEN SetField(SetField(selected, "bgSubtracted", "True"),
                      "warpAndPsfMatch.desiredFwhm", "None")
        ELSE IF cls = AssembleCoaddTask
        THEN SetField(selected, "doMatchBackgrounds", "False")
        ELSE selected

MakeCoaddTask ==
    /\ Running("makeCoaddTask", "start")
    /\ \E defaults \in ConfigClass(Top.cls) :
         LET config == MakeCoaddTaskConfig(Top.cls, defaults, coaddName) IN
         IF "error" \in DOMAIN config
         THEN Raise("AttributeError")
         ELSE Return(TaskResult(Top.cls, config))
    /\ UNCHANGED <<coaddName, repo, op, trace>>

-----------------------------------------------------------------------------
(* The coadd tasks, run on a patch data reference *)

\* a task reads its inputs in turn and raises at the first one missing;
\* with all of them read it writes its output and the frame goes on as next
TaskRun(reads, key, obj, next) ==
    LET missing == {i \in 1..Len(reads) : reads[i] \notin repo}
        last == IF missing = {} THEN Len(reads)
                ELSE CHOOSE i \in missing : \A k \in missing : i <= k
        gets == [i \in 1..last |-> Access("get", reads[i], Stored(reads[i].ds))]
    IN  IF missing = {}
        THEN /\ trace' = (trace \o gets) \o <<Access("put", key, obj)>>
             /\ repo' = repo \cup {key}
             /\ Goto(next)
             /\ UNCHANGED ret
        ELSE /\ trace' = trace \o gets
             /\ UNCHANGED repo
             /\ Raise("NoResults")

Calexps == [i \in 1..NumObs |-> CalexpKey(CcdOf(i), VisitOf(i))]

\* MakeCoaddTempExpTask.run(patchRef): selects the images of the patch (the
\* mock selector reads the observations catalog), warps the calexps
MakeCoaddTempExpRun(config, tract, k, next) ==
    IF config["select"] # "MockSelectImagesTask"
    THEN Raise("NotImplementedError") /\ UNCHANGED <<repo, trace>>
    ELSE TaskRun(<<SkyMapKey(config["coaddName"]), ObservationsKey(tract)>>
                    \o Calexps,
                 TempExpKey(config["coaddName"], tract, PatchX(k), PatchY(k)),
                 Made("Coadd_tempExp"), next)

\* AssembleCoaddTask.run(patchRef): stacks the patch's warped exposures
AssembleCoaddRun(config, tract, k, next) ==
    IF config["select"] # "MockSelectImagesTask"
    THEN Raise("NotImplementedError") /\ UNCHANGED <<repo, trace>>
    ELSE TaskRun(<<SkyMapKey(config["coaddName"]), ObservationsKey(tract),
                   TempExpKey(config["coaddName"], tract, PatchX(k), PatchY(k))>>,
                 CoaddKey(config["coaddName"], tract, PatchX(k), PatchY(k)),
                 Made("Coadd"), next)

-----------------------------------------------------------------------------
(* MockCoaddTask.buildCoadd *)

BuildCoadd_skyMap ==
    /\ Running("buildCoadd", "start")
    /\ IF Top.skyMap = None
       THEN ButlerGet(Top.butler, SkyMapKey(coaddName),
                      [Top EXCEPT !.skyMap = Stored("Coadd_skyMap"),
                                  !.pc = "makeTempExp"])
       ELSE Goto([Top EXCEPT !.pc = "makeTempExp"])
            /\ UNCHANGED <<repo, trace, ret>>
    /\ UNCHANGED <<coaddName, op>>

BuildCoadd_makeTempExpTask ==
    /\ Running("buildCoadd", "makeTempExp")
    /\ Call("makeAssemble",
            [Frame("makeCoaddTask") EXCEPT !.cls = MakeCoaddTempExpTask])
    /\ UNCHANGED <<coaddName, repo, op, trace, ret>>

BuildCoadd_makeAssembleTask ==
    /\ Running("buildCoadd", "makeAssemble")
    /\ stack' = Append([stack EXCEPT ![Len(stack)].pc = "made",
                                     ![Len(stack)].tempExpConfig = Top.gotConfig],
                       [Frame("makeCoaddTask") EXCEPT !.cls = AssembleCoaddTask])
    /\ UNCHANGED <<coaddName, repo, op, trace, ret>>

BuildCoadd_made ==
    /\ Running("buildCoadd", "made")
    /\ Goto([Top EXCEPT !.assembleConfig = Top.gotConfig, !.i = 0,
                        !.pc = "tempExp"])
    /\ UNCHANGED <<coaddName, repo, op, trace, ret>>

\* for patchRef in iterPatchRefs(butler, tractInfo): makeCoaddTempExpTask.run
BuildCoadd_tempExp ==
    /\ Running("buildCoadd", "tempExp")
    /\ IF Top.butler = None
       THEN Raise("AttributeError") /\ UNCHANGED <<repo, trace>>
       ELSE MakeCoaddTempExpRun(Top.tempExpConfig, Top.tract, Top.i,
               IF Top.i + 1 = NumPatchRefs
               THEN [Top EXCEPT !.i = 0, !.pc = "assemble"]
               ELSE [Top EXCEPT !.i = @ + 1])
    /\ UNCHANGED <<coaddName, op>>

\* for patchRef in iterPatchRefs(butler, tractInfo): assembleCoaddTask.run
BuildCoadd_assemble ==
    /\ Running("buildCoadd", "assemble")
    /\ AssembleCoaddRun(Top.assembleConfig, Top.tract, Top.i,
               IF Top.i + 1 = NumPatchRefs
               THEN [Top EXCEPT !.pc = "end"]
               ELSE [Top EXCEPT !.i = @ + 1])
    /\ UNCHANGED <<coaddName, op>>

BuildCoadd_end ==
    /\ Running("buildCoadd", "end")
    /\ Return(Result(None))
    /\ UNCHANGED <<coaddName, repo, op, trace>>

-----------------------------------------------------------------------------
(* MockCoaddTask.buildMockCoadd *)

BuildMockCoadd_truth ==
    /\ Running("buildMockCoadd", "start")
    /\ IF Top.truthCatalog = None
       THEN ButlerGet(Top.butler, TruthKey(Top.tract),
                      [Top EXCEPT !.truthCatalog = Stored("truth"),
                                  !.pc = "skyMap"])
       ELSE Goto([Top EXCEPT !.pc = "skyMap"]) /\ UNCHANGED <<repo, trace, ret>>
    /\ UNCHANGED <<coaddName, op>>

BuildMockCoadd_skyMap ==
    /\ Running("buildMockCoadd", "skyMap")
    /\ LET next == [Top EXCEPT !.pc = "coadd", !.i = 0] IN
       IF Top.skyMap = None
       THEN ButlerGet(Top.butler, SkyMapKey(coaddName),
                      [next EXCEPT !.skyMap = Stored("Coadd_skyMap")])
       ELSE Goto(next) /\ UNCHANGED <<repo, trace, ret>>
    /\ UNCHANGED <<coaddName, op>>

\* exposure = patchRef.get(coaddName + "Coadd")
BuildMockCoadd_coadd ==
    /\ Running("buildMockCoadd", "coadd")
    /\ ButlerGet(Top.butler,
                 CoaddKey(coaddName, Top.tract, PatchX(Top.i), PatchY(Top.i)),
                 [Top EXCEPT !.pc = "mock"])
    /\ UNCHANGED <<coaddName, op>>

\* patchRef.put(exposure, coaddName + "Coadd_mock")
BuildMockCoadd_mock ==
    /\ Running("buildMockCoadd", "mock")
    /\ ButlerPut(MockCoaddKey(coaddName, Top.tract, PatchX(Top.i), PatchY(Top.i)),
                 Stored("Coadd"))
    /\ IF Top.i + 1 = NumPatchRefs
       THEN Return(Result(None))
       ELSE Goto([Top EXCEPT !.i = @ + 1, !.pc = "coadd"]) /\ UNCHANGED ret
    /\ UNCHANGED <<coaddName, op>>

-----------------------------------------------------------------------------
(* run(root) *)

\* the mock coadd built before the coadd it is drawn on
RunStagesMockFirst == <<"buildAllInputs", "buildMockCoadd", "buildCoadd">>

\* the stages of run, in the order it calls them
RunStages == <<"buildAllInputs", "buildCoadd", "buildMockCoadd">>

\* butler = makeDataRepo(root); then each stage on that butler
Run_stage ==
    /\ Running("run", "start")
    /\ IF Top.i = Len(RunStages)
       THEN Return(Result(None))
       ELSE /\ stack' = Append([stack EXCEPT ![Len(stack)].i = @ + 1],
                               [Frame(RunStages[Top.i + 1]) EXCEPT
                                   !.butler = Butler])
            /\ UNCHANGED ret
    /\ UNCHANGED <<coaddName, repo, op, trace>>

-----------------------------------------------------------------------------
(* injectFakeSources: loading the module and constructing the task *)

\* the imports written without "as": they bind lsst, not the short names
InjectImportsUnaliased ==
    {"lsst", "PositionGalSimFakesTask", "CalibrateTask"}

\* the names the module's import statements bind
InjectImports ==
    {"pexConfig", "pipeBase", "afwImage", "PositionGalSimFakesTask",
     "CalibrateTask"}

\* the fields of InjectFakeSourcesConfig, in the order of the class body, with
\* the name each field's definition starts from
InjectConfigBody ==
    <<[field |-> "catalogFileName", uses |-> "lsstConfig"],
      [field |-> "maskPlaneName", uses |-> "lsst"],
      [field |-> "calibrate", uses |-> "pexConfig"],
      [field |-> "positionGalsimFakes", uses |-> "pexConfig"]>>

InjectConfigFields ==
    {InjectConfigBody[i].field : i \in DOMAIN InjectConfigBody}

\* whether the header of InjectFakeSourcesTask.__init__ ends with its colon
InitHeaderHasColon == FALSE

\* the statements of __init__ after its docstring: the global names each one
\* evaluates, the attributes of self it reads, the subtask it makes and the
\* attributes of self it leaves set
InjectInitBody ==
    <<[names |-> {"pipeBase"}, reads |-> {}, subtask |-> "",
       sets |-> {"config", "log", "metadata"}],
      [names |-> {"afwImage"}, reads |-> {"config"}, subtask |-> "",
       sets |-> {}],
      [names |-> {"afwImage"}, reads |-> {"config"}, subtask |-> "",
       sets |-> {"bitmask"}],
      [names |-> {"SourceTable"}, reads |-> {}, subtask |-> "calibrate",
       sets |-> {"calibrate"}],
      [names |-> {}, reads |-> {"catalogFileName"},
       subtask |-> "positionGalSimFakes", sets |-> {"positionGalSimFakes"}]>>

\* the attributes self has before statement k of __init__
SelfAttributes(k) == UNION {InjectInitBody[i].sets : i \in 1..(k - 1)}

\* the error statement k of __init__ raises when it is run, "" when none:
\* argument names first, then attributes of self, then the subtask's field
InitStatementError(k) ==
    LET st == InjectInitBody[k] IN
    IF st.names \ InjectImports # {} THEN "NameError"
    ELSE IF st.reads \ SelfAttributes(k) # {} THEN "AttributeError"
    ELSE IF st.subtask # "" /\ st.subtask \notin InjectConfigFields THEN "KeyError"
    ELSE ""

\* importing the module: compiled first, then run top to bottom
ImportOutcome ==
    IF ~InitHeaderHasColon THEN "SyntaxError"
    ELSE IF \E i \in DOMAIN InjectConfigBody :
              InjectConfigBody[i].uses \notin InjectImports
    THEN "NameError"
    ELSE "imported"

\* InjectFakeSourcesTask(...): the first error on the way, or "constructed"
ConstructOutcome ==
    IF ImportOutcome # "imported" THEN ImportOutcome
    ELSE LET failing == {k \in DOMAIN InjectInitBody : InitStatementError(k) # ""}
         IN  IF failing = {} THEN "constructed"
             ELSE InitStatementError(CHOOSE k \in failing :
                                        \A m \in failing : k <= m)

ConstructInjectFakeSourcesTask ==
    /\ stack = <<>> /\ op = NoOp
    /\ op' = Frame("InjectFakeSourcesTask")
    /\ ret' = IF ConstructOutcome = "constructed"
              THEN Ok(Result(Made("task")))
              ELSE Raised(ConstructOutcome)
    /\ UNCHANGED <<coaddName, repo, stack, trace>>

-----------------------------------------------------------------------------
(* The repository a call finds, and the calls *)

InputKeys == {Calexps[i] : i \in 1..NumObs} \cup {SimSrcKey(0)}
CoaddKeys(c) ==
    UNION {{TempExpKey(c, 0, PatchX(k), PatchY(k)),
            CoaddKey(c, 0, PatchX(k), PatchY(k))} : k \in 0..(NumPatchRefs - 1)}

\* the repositories earlier calls on tract 0 can have left: the camera comes
\* with the mapper; input images need the sky map, coadds need the sky map,
\* the observations and the input images
Repos(c) ==
    {{CameraKey} \cup s \cup i \cup d :
        s \in SUBSET {SkyMapKey(c), TruthKey(0), ObservationsKey(0)},
        i \in {{}, InputKeys}, d \in {{}, CoaddKeys(c)}}

InitRepos(c) ==
    {r \in Repos(c) :
        /\ InputKeys \subseteq r => SkyMapKey(c) \in r
        /\ CoaddKeys(c) \subseteq r =>
              {SkyMapKey(c), ObservationsKey(0)} \cup InputKeys \subseteq r}

Butlers == {None, Butler}
SkyMaps == {None, Arg("Coadd_skyMap")}
Cameras == {None, Arg("camera")}
ObsCatalogs == {None, Arg("observations")}
TruthCatalogs == {None, Arg("truth")}

Calls ==
    {Frame("run")}
    \cup {[Frame(fn) EXCEPT !.butler = b] :
            fn \in {"buildSkyMap", "buildAllInputs"}, b \in Butlers}
    \cup {[Frame("buildTruthCatalog") EXCEPT
              !.butler = b, !.skyMap = s, !.tract = t] :
            b \in Butlers, s \in SkyMaps, t \in Tracts}
    \cup {[Frame("buildObservationCatalog") EXCEPT
              !.butler = b, !.skyMap = s, !.tract = t, !.camera = c] :
            b \in Butlers, s \in SkyMaps, t \in Tracts, c \in Cameras}
    \cup {[Frame("buildInputImages") EXCEPT
              !.butler = b, !.obsCatalog = o, !.truthCatalog = u, !.tract = t] :
            b \in Butlers, o \in ObsCatalogs, u \in TruthCatalogs, t \in Tracts}
    \cup {[Frame("makeCoaddTask") EXCEPT !.cls = c] : c \in CoaddTaskClasses}
    \cup {[Frame("buildCoadd") EXCEPT !.butler = b, !.skyMap = s, !.tract = t] :
            b \in Butlers, s \in SkyMaps, t \in Tracts}
    \cup {[Frame("buildMockCoadd") EXCEPT
              !.butler = b, !.truthCatalog = u, !.skyMap = s, !.tract = t] :
            b \in Butlers, u \in TruthCatalogs, s \in SkyMaps, t \in Tracts}

Invoke ==
    /\ stack = <<>> /\ op = NoOp
    /\ \E f \in Calls : op' = f /\ stack' = <<f>>
    /\ UNCHANGED <<coaddName, repo, trace, ret>>

-----------------------------------------------------------------------------

Init ==
    /\ coaddName \in CoaddNames
    /\ repo \in InitRepos(coaddName)
    /\ op = NoOp
    /\ stack = <<>>
    /\ trace = <<>>
    /\ ret = NoRet

Next ==
    \/ Invoke
    \/ Run_stage
    \/ BuildSkyMap
    \/ BuildTruthCatalog_skyMap
    \/ BuildTruthCatalog_run
    \/ BuildObservationCatalog_skyMap
    \/ BuildObservationCatalog_camera
    \/ BuildObservationCatalog_run
    \/ BuildInputImages_skyMap
    \/ BuildInputImages_obs
    \/ BuildInputImages_truth
    \/ BuildInputImages_draw
    \/ BuildInputImages_calexp
    \/ BuildInputImages_simsrc
    \/ BuildAllInputs_skyMap
    \/ BuildAllInputs_observations
    \/ BuildAllInputs_truth
    \/ BuildAllInputs_images
    \/ BuildAllInputs_end
    \/ MakeCoaddTask
    \/ BuildCoadd_skyMap
    \/ BuildCoadd_makeTempExpTask
    \/ BuildCoadd_makeAssembleTask
    \/ BuildCoadd_made
    \/ BuildCoadd_tempExp
    \/ BuildCoadd_assemble
    \/ BuildCoadd_end
    \/ BuildMockCoadd_truth
    \/ BuildMockCoadd_skyMap
    \/ BuildMockCoadd_coadd
    \/ BuildMockCoadd_mock
    \/ ConstructInjectFakeSourcesTask

Spec == Init /\ [][Next]_vars

-----------------------------------------------------------------------------
(* Properties *)

\* the top-level call has ended (returned or raised)
Ended(fn) == op.fn = fn /\ stack = <<>>
Returned(fn) == Ended(fn) /\ ret.status = "returned"

Gets == SelectSeq(trace, LAMBDA a : a.acc = "get")
Puts == SelectSeq(trace, LAMBDA a : a.acc = "put")

\* the datasets one stage of the pipeline hands to a later one
StagedDatasets ==
    {"Coadd_skyMap", "truth", "observations", "calexp", "simsrc", "Coadd"}

\* the order of the stages: sky map, the two catalogs, input images, coadd,
\* mock coadd
StageRank(fn) ==
    CASE fn = "buildSkyMap" -> 1
      [] fn \in {"buildObservationCatalog", "buildTruthCatalog"} -> 2
      [] fn = "buildInputImages" -> 3
      [] fn = "buildCoadd" -> 4
      [] fn = "buildMockCoadd" -> 5
      [] OTHER -> 0

\* C1: in run(root) every read of a sky map, truth, observations, calexp,
\* simsrc or coadd dataset comes after a write of that dataset by an earlier
\* stage, and the stages access the butler in the order sky map, catalogs,
\* input images, buildCoadd, buildMockCoadd.
C1_RunReadsAfterWrites ==
    op.fn = "run" =>
      /\ \A i \in DOMAIN trace :
           (trace[i].acc = "get" /\ trace[i].key.ds \in StagedDatasets) =>
              \E j \in 1..(i - 1) :
                 /\ trace[j].acc = "put"
                 /\ trace[j].key = trace[i].key
                 /\ StageRank(trace[j].by) < StageRank(trace[i].by)
      /\ \A i, j \in DOMAIN trace :
           i < j => /\ StageRank(trace[i].by) <= StageRank(trace[j].by)
                    /\ StageRank(trace[i].by) > 0

\* run has gone through all its stages: buildMockCoadd has read the coadds
C1_Witness ==
    /\ Returned("run")
    /\ \E i \in DOMAIN trace :
          trace[i].acc = "get" /\ trace[i].key.ds = "Coadd"
    /\ \E i \in DOMAIN trace :
          trace[i].acc = "get" /\ trace[i].key.ds = "calexp"
    /\ \E i \in DOMAIN trace :
          trace[i].acc = "get" /\ trace[i].key.ds = "truth"

\* C2: buildInputImages called with butler = None and both catalogs supplied
\* returns the simsrc catalog and accesses no butler.
C2_NoButlerReturnsSimSrc ==
    (/\ Ended("buildInputImages")
     /\ op.butler = None
     /\ op.obsCatalog # None
     /\ op.truthCatalog # None)
    => /\ ret.status = "returned"
       /\ ret.value.kind = "simsrc"
       /\ trace = <<>>

\* what the code does on that input
C2_Witness ==
    /\ Ended("buildInputImages")
    /\ op.butler = None
    /\ op.obsCatalog # None
    /\ op.truthCatalog # None
    /\ ret.status = "raised"
    /\ ret.exc = "AttributeError"

CatalogCall(fn, kind, key) ==
    /\ op.fn = fn =>
         /\ Len(Puts) <= 1
         /\ \A i \in DOMAIN Puts : Puts[i].key = key /\ Puts[i].obj.kind = kind
         /\ op.butler = None => trace = <<>>
    /\ Returned(fn) =>
         /\ ret.value = Made(kind)
         /\ op.butler # None =>
               /\ Len(Puts) = 1
               /\ Puts[1].obj = ret.value
         /\ op.butler = None => Len(Puts) = 0
    /\ (/\ Ended(fn)
        /\ op.butler = None
        /\ op.skyMap # None
        /\ (fn = "buildObservationCatalog" => op.camera # None))
       => ret.status = "returned"

Defect(kind, name) == [kind |-> kind, name |-> name]
InjectDefects ==
    (IF InitHeaderHasColon THEN {} ELSE {Defect("syntax", "__init__")})
    \cup {Defect("unbound", InjectConfigBody[i].uses) :
            i \in {k \in DOMAIN InjectConfigBody :
                      InjectConfigBody[k].uses \notin InjectImports}}
    \cup {Defect("unbound", n) :
            n \in UNION {InjectInitBody[k].names \ InjectImports :
                            k \in DOMAIN InjectInitBody}}
    \cup {Defect("unassigned", a) :
            a \in UNION {InjectInitBody[k].reads \ SelfAttributes(k) :
                            k \in DOMAIN InjectInitBody}}
    \cup {Defect("no config field", InjectInitBody[k].subtask) :
            k \in {m \in DOMAIN InjectInitBody :
                      /\ InjectInitBody[m].subtask # ""
                      /\ InjectInitBody[m].subtask \notin InjectConfigFields}}

\* run is a method: it can be called only on a constructed task
InjectRunReachable == Returned("InjectFakeSourcesTask")

\* C4: the injection module has a syntax error in the constructor's header,
\* uses the unbound names lsstConfig, lsst and SourceTable, reads
\* self.catalogFileName that nothing assigns and makes a subtask
\* positionGalSimFakes that no config field names; constructing the task
\* always ends in an error and run is never reached.
C4_InjectModuleBroken ==
    /\ InjectDefects =
          {Defect("syntax", "__init__"),
           Defect("unbound", "lsstConfig"),
           Defect("unbound", "lsst"),
           Defect("unbound", "SourceTable"),
           Defect("unassigned", "catalogFileName"),
           Defect("no config field", "positionGalSimFakes")}
    /\ op.fn = "InjectFakeSourcesTask" => ret.status = "raised"
    /\ ~InjectRunReachable

C4_Witness ==
    /\ Ended("InjectFakeSourcesTask")
    /\ ret.status = "raised"
    /\ ret.exc = "SyntaxError"

\* the configuration of a task of class cls made for the mock coadd
ConfiguredFor(cls, config) ==
    /\ DOMAIN config = ConfigFields(cls)
    /\ config["coaddName"] = coaddName
    /\ config["select"] = "MockSelectImagesTask"
    /\ cls = MakeCoaddTempExpTask =>
          /\ config["bgSubtracted"] = "True"
          /\ config["warpAndPsfMatch.desiredFwhm"] = "None"
    /\ cls = AssembleCoaddTask => config["doMatchBackgrounds"] = "False"

\* C5: makeCoaddTask(cls) returns a task of class cls with coaddName the mock
\* task's and the selector retargeted to MockSelectImagesTask; a
\* MakeCoaddTempExpTask has bgSubtracted = True and no desired FWHM, an
\* AssembleCoaddTask has doMatchBackgrounds = False, and no class is given a
\* setting of the other (which its config would reject).
C5_MakeCoaddTaskConfig ==
    /\ Ended("makeCoaddTask") =>
          /\ ret.status = "returned"
          /\ ret.cls = op.cls
          /\ ConfiguredFor(ret.cls, ret.config)
    /\ Running("buildCoadd", "made") =>
          /\ Top.gotCls = AssembleCoaddTask
          /\ ConfiguredFor(AssembleCoaddTask, Top.gotConfig)
    /\ \A i \in DOMAIN stack :
          (stack[i].fn = "buildCoadd" /\ stack[i].pc \in {"made", "tempExp"}) =>
             ConfiguredFor(MakeCoaddTempExpTask, stack[i].tempExpConfig)
    /\ (Ended("buildCoadd") /\ ret.exc = "AttributeError") => op.butler = None

\* an AssembleCoaddTask made from a config class whose default coadd name is
\* not the mock task's
C5_Witness ==
    /\ Returned("makeCoaddTask")
    /\ op.cls = AssembleCoaddTask
    /\ coaddName = "goodSeeing"
    /\ ret.config["doMatchBackgrounds"] = "False"

====
